---- MODULE Spec2Model ----
(***************************************************************************)
(* Model of the scqc availability plugin (QcPluginAvailability):           *)
(* timeoutTask, generateReport and the availability evaluator of           *)
(* src/apps/processing/scqc/plugins/qcplugin_availability.cpp.             *)
(*                                                                         *)
(* Time is counted in ticks; one second is TicksPerSec ticks.  A time      *)
(* span in seconds is therefore a rational ticks / TicksPerSec, and every  *)
(* floating-point comparison of the source is carried out exactly on       *)
(* cross-multiplied integers.  A double that the source computes by a      *)
(* division is kept as a fraction, or as one of the IEEE-754 special       *)
(* values the division produces when the divisor is zero.                  *)
(***************************************************************************)
EXTENDS Integers, Sequences, FiniteSets

\* ---------------------------------------------------------------- bounds
\* the buffer keeps the latest MaxLen entries
MaxLen == 3

\* the latest time instant, in ticks, of a record or of the clock
MaxTime == 1

\* ---------------------------------------------------- time and frequency
TicksPerSec == 4

\* Core::Time(): the default-constructed time instant
ZeroTime == 0

\* the earliest time instant of a record: before Core::Time()
MinTime == 0 - 2

Times == MinTime .. MaxTime

\* sampling frequencies (Hz) of real records
Freqs == {1, 4}

\* recordSamplingFrequency of a synthetic timeout entry
TimeoutFreq == 0 - 1

Min(a, b) == IF a <= b THEN a ELSE b

\* ------------------------------------------------------------ arithmetic
\* integer quotient truncated toward zero, as static_cast<int> truncates
TruncDiv(a, b) == IF a >= 0 THEN a \div b ELSE 0 - ((0 - a) \div b)

\* Private::round(val) for val = num / den, den > 0:
\* static_cast<int>(val + 0.5)
round(num, den) == TruncDiv(2 * num + den, 2 * den)

\* ------------------------------------------------------------ TimeWindow
TimeWindow(s, e) == [startTime |-> s, endTime |-> e]

length(tw) == tw.endTime - tw.startTime

contains(a, b) == a.startTime <= b.startTime /\ b.endTime <= a.endTime

overlaps(a, b) == a.startTime < b.endTime /\ b.startTime < a.endTime

\* ----------------------------------------------------------- QcParameter
QcParameter(s, e, fs, p) ==
    [recordStartTime |-> s, recordEndTime |-> e,
     recordSamplingFrequency |-> fs, parameter |-> p]

\* recordSamplingFrequency == -1.0: a timeout entry
IsTimeout(qcp) == qcp.recordSamplingFrequency = TimeoutFreq

IsReal(qcp) == ~IsTimeout(qcp)

\* record lengths in ticks
Durations == {1, 2}

\* the records the host feeds: positive rate, end after start
RealRecords ==
    {q \in [recordStartTime : Times, recordEndTime : Times,
            recordSamplingFrequency : Freqs, parameter : {0}] :
       q.recordEndTime - q.recordStartTime \in Durations}

\* ------------------------------------------------ QcBuffer (read access)
empty(buf) == Len(buf) = 0

front(buf) == buf[1]

back(buf) == buf[Len(buf)]

startTime(buf) == front(buf).recordStartTime

endTime(buf) == back(buf).recordEndTime

bufLength(buf) == endTime(buf) - startTime(buf)

\* ------------------------------------------------------- double results
Finite(n, d) == [k |-> "finite", n |-> n, d |-> d]

NaN == [k |-> "nan", n |-> 0, d |-> 1]

PosInf == [k |-> "+inf", n |-> 1, d |-> 0]

NegInf == [k |-> "-inf", n |-> 0 - 1, d |-> 0]

\* the double a / b of two integers converted to double (IEEE-754)
DoubleDiv(a, b) ==
    IF b = 0
      THEN IF a = 0 THEN NaN ELSE IF a > 0 THEN PosInf ELSE NegInf
      ELSE IF b > 0 THEN Finite(a, b) ELSE Finite(0 - a, 0 - b)

\* x > 100.0 for a double x; every comparison with NaN is false
GreaterThan100(x) ==
    \/ x.k = "+inf"
    \/ x.k = "finite" /\ x.n > 100 * x.d

\* prevent availability > 100%
Clamp(x) == IF GreaterThan100(x) THEN Finite(100, 1) ELSE x

\* ------------------------------------------------- availability evaluator
\* a gap test with a tolerance of half a second, whatever the rate
isGapFixedTolerance(dticks, fs) == 2 * dticks > TicksPerSec

\* diff > (0.5 / recordSamplingFrequency), diff = dticks / TicksPerSec s
isGap(dticks, fs) ==
    IF fs > 0 THEN 2 * dticks * fs > TicksPerSec
    ELSE IF fs < 0 THEN 2 * dticks * fs < TicksPerSec
    ELSE FALSE

\* the overlap test with its comparison turned around
isOverlapTurned(dticks, fs) ==
    IF fs > 0 THEN 2 * dticks * fs > 0 - TicksPerSec
    ELSE IF fs < 0 THEN 2 * dticks * fs < 0 - TicksPerSec
    ELSE FALSE

\* diff < (-0.5 / recordSamplingFrequency)
isOverlap(dticks, fs) ==
    IF fs > 0 THEN 2 * dticks * fs < 0 - TicksPerSec
    ELSE IF fs < 0 THEN 2 * dticks * fs > 0 - TicksPerSec
    ELSE FALSE

\* Private::round(length(tw2) * recordSamplingFrequency)
sampleCount(qcp) ==
    round(length(TimeWindow(qcp.recordStartTime, qcp.recordEndTime))
            * qcp.recordSamplingFrequency,
          TicksPerSec)

\* Private::round(length(tw) * samplingFrequency), the front entry's rate
estimatedSamples(buf) ==
    round(length(TimeWindow(startTime(buf), endTime(buf)))
            * front(buf).recordSamplingFrequency,
          TicksPerSec)

\* the "get gaps/overlaps" block without the update of lastTime
gapsOverlapsLastTimeKept(acc, i, qcp) ==
    LET fs == qcp.recordSamplingFrequency
        compared == acc.lastTime # ZeroTime
        diff == qcp.recordStartTime - acc.lastTime
        g == compared /\ isGap(diff, fs)
        o == compared /\ isOverlap(diff, fs)
    IN [acc EXCEPT
          !.gapCount = IF g THEN @ + 1 ELSE @,
          !.overlapCount = IF o THEN @ + 1 ELSE @,
          !.boundaries = Append(@, [index |-> i, gap |-> g, overlap |-> o])]

\* the "get gaps/overlaps" block without the test lastTime != Core::Time():
\* the first real entry is compared with the zero time as well
gapsOverlapsNoSentinel(acc, i, qcp) ==
    LET fs == qcp.recordSamplingFrequency
        diff == qcp.recordStartTime - acc.lastTime
        g == isGap(diff, fs)
        o == isOverlap(diff, fs)
    IN [acc EXCEPT
          !.gapCount = IF g THEN @ + 1 ELSE @,
          !.overlapCount = IF o THEN @ + 1 ELSE @,
          !.lastTime = qcp.recordEndTime,
          !.boundaries = Append(@, [index |-> i, gap |-> g, overlap |-> o])]

\* the "get gaps/overlaps" block for one real entry; boundaries records, for
\* each real entry the loop examines, what the block did at that entry
gapsOverlaps(acc, i, qcp) ==
    LET fs == qcp.recordSamplingFrequency
        compared == acc.lastTime # ZeroTime
        diff == qcp.recordStartTime - acc.lastTime
        g == compared /\ isGap(diff, fs)
        o == compared /\ isOverlap(diff, fs)
    IN [acc EXCEPT
          !.gapCount = IF g THEN @ + 1 ELSE @,
          !.overlapCount = IF o THEN @ + 1 ELSE @,
          !.lastTime = qcp.recordEndTime,
          !.boundaries = Append(@, [index |-> i, gap |-> g, overlap |-> o])]

\* a loop that skips no entry
skipsNone(qcp) == FALSE

\* the loop's test for a timeout entry, which it skips
skips(qcp) == qcp.recordSamplingFrequency = TimeoutFreq

\* the body of the for loop from entry i on
RECURSIVE loop(_, _, _, _, _)
loop(buf, i, tw, estimated, acc) ==
    IF i > Len(buf) THEN acc
    ELSE
      LET qcp == buf[i] IN
      IF skips(qcp)
        THEN loop(buf, i + 1, tw, estimated, acc)
        ELSE
          LET fs == qcp.recordSamplingFrequency
              tw2 == TimeWindow(qcp.recordStartTime, qcp.recordEndTime)
              n == sampleCount(qcp)
              acc1 == gapsOverlaps(acc, i, qcp)
              dtHead == tw.startTime - qcp.recordStartTime
              dtTail == qcp.recordEndTime - tw.endTime
          IN
          IF contains(tw, tw2)
            THEN loop(buf, i + 1, tw, estimated,
                      [acc1 EXCEPT !.effectiveSamples = @ + n])
          ELSE IF contains(tw2, tw)
            THEN [acc1 EXCEPT !.effectiveSamples = estimated]
          ELSE IF overlaps(tw, tw2) /\ dtHead > 0
            THEN loop(buf, i + 1, tw, estimated,
                      [acc1 EXCEPT !.effectiveSamples =
                                     @ + n - round(dtHead * fs, TicksPerSec)])
          ELSE IF overlaps(tw, tw2) /\ dtTail > 0
            THEN loop(buf, i + 1, tw, estimated,
                      [acc1 EXCEPT !.effectiveSamples =
                                     @ + n - round(dtTail * fs, TicksPerSec)])
          ELSE loop(buf, i + 1, tw, estimated, acc1)

\* the loop run from the first entry with the counters at zero
scan(buf) ==
    loop(buf, 1, TimeWindow(startTime(buf), endTime(buf)), estimatedSamples(buf),
         [effectiveSamples |-> 0, gapCount |-> 0, overlapCount |-> 0,
          lastTime |-> ZeroTime, boundaries |-> << >>])

\* returnVector, with divided: whether the division by estimatedSamples ran
returnVector(a, g, o, div) ==
    [availability |-> a, gaps |-> g, overlaps |-> o, divided |-> div]

\* the evaluator without its test of the front entry's sampling frequency
availabilityNoFrontTest(buf) ==
    IF empty(buf) THEN returnVector(Finite(0, 1), 0, 0, FALSE)
    ELSE
      LET acc == scan(buf) IN
      returnVector(Clamp(DoubleDiv(100 * acc.effectiveSamples, estimatedSamples(buf))),
                   acc.gapCount, acc.overlapCount, TRUE)

availability(buf) ==
    IF empty(buf) THEN returnVector(Finite(0, 1), 0, 0, FALSE)
    ELSE IF front(buf).recordSamplingFrequency = TimeoutFreq
      THEN returnVector(Finite(0, 1), 0, 0, FALSE)
    ELSE
      LET acc == scan(buf) IN
      returnVector(Clamp(DoubleDiv(100 * acc.effectiveSamples, estimatedSamples(buf))),
                   acc.gapCount, acc.overlapCount, TRUE)

\* ------------------------------------------------------------ the plugin
VARIABLES
    buffer,             \* _qcBuffer: the stream's QcParameter entries, in order
    lastRecordEndTime,  \* _lastRecordEndTime
    now,                \* the latest value read from the clock Core::Time::UTC()
    pushed,             \* the objects the latest operation handed to pushObject
    picker              \* scautopick: its Picker::Config, the application's
                        \* configuration and how far the set-up has come

vars == <<buffer, lastRecordEndTime, now, pushed, picker>>

\* _parameterNames as the constructor fills it
parameterNames == <<"availability", "gaps count", "overlaps count">>

\* the values n successive reads of the clock may return after the value t:
\* the clock never runs backwards, and advances at most one tick meanwhile
ClockReads(t, n) ==
    {c \in [1 .. n -> t .. Min(t + 1, MaxTime)] :
       \A i \in 1 .. n - 1 : c[i] <= c[i + 1]}

\* how far, in ticks, a record may start from where the stream stopped
Jitter == {0 - 1, 0, 1}

\* where the stream stopped: the end of the latest real record of the buffer,
\* or, when retention dropped it, the start of the timeout entry that kept it
RECURSIVE StreamEnd(_, _)
StreamEnd(buf, i) ==
    IF i = 0 THEN buf[Len(buf)].recordStartTime
    ELSE IF IsReal(buf[i]) THEN buf[i].recordEndTime
    ELSE StreamEnd(buf, i - 1)

\* records arrive in stream order: each starts near the end of the one before
InStreamOrder(buf, qcp) ==
    IF empty(buf) THEN TRUE
    ELSE qcp.recordStartTime - StreamEnd(buf, Len(buf)) \in Jitter

\* QcBuffer::push_back: append, then retention drops k entries from the head
push_back(buf, qcp, k) == SubSeq(Append(buf, qcp), k + 1, Len(buf) + 1)

\* how many head entries retention drops when one entry is appended: the
\* buffer keeps the latest MaxLen entries
Evictions(buf) == IF Len(buf) >= MaxLen THEN {1} ELSE {0}

\* one WaveformQuality object as generateReport fills it
WaveformQuality(buf, created, name, value) ==
    [created |-> created,
     start |-> startTime(buf),
     end |-> endTime(buf),
     type |-> "report",
     parameter |-> name,
     value |-> value,
     lowerUncertainty |-> 0,
     upperUncertainty |-> 0,
     windowLength |-> bufLength(buf)]

\* a report triple with the two counts under each other's name
generateReportCountsSwapped(buf, c1, c2, c3) ==
    IF empty(buf) THEN << >>
    ELSE
      LET result == availability(buf) IN
      << WaveformQuality(buf, c1, parameterNames[1], result.availability),
         WaveformQuality(buf, c2, parameterNames[2], Finite(result.overlaps, 1)),
         WaveformQuality(buf, c3, parameterNames[3], Finite(result.gaps, 1)) >>

\* generateReport(buf): the objects pushed, c1..c3 the three clock reads
generateReport(buf, c1, c2, c3) ==
    IF empty(buf) THEN << >>
    ELSE
      LET result == availability(buf) IN
      << WaveformQuality(buf, c1, parameterNames[1], result.availability),
         WaveformQuality(buf, c2, parameterNames[2], Finite(result.gaps, 1)),
         WaveformQuality(buf, c3, parameterNames[3], Finite(result.overlaps, 1)) >>

\* ------------------------------------------- scautopick: Picker::Config
\* how many options of the application's configuration can be read at once
MaxPresent == 2

\* Picker::Config::Config(): the object the constructor leaves. dumpRecords is
\* not assigned by the constructor; std::string and StringSet members it does
\* not assign are empty
Config(dumpRecords) ==
    [amplitudeGroup |-> "AMPLITUDE",
     phaseHint |-> "P",
     test |-> FALSE,
     offline |-> FALSE,
     useAllStreams |-> FALSE,
     calculateAmplitudes |-> TRUE,
     interpolateGaps |-> FALSE,
     maxGapLength |-> Finite(45, 10),
     defaultChannel |-> "BH",
     defaultFilter |-> "RMHP(10)>>ITAPER(30)>>BW(4,0.7,2)>>STALTA(2,80)",
     defaultTriggerOnThreshold |-> Finite(3, 1),
     defaultTriggerOffThreshold |-> Finite(15, 10),
     minDuration |-> Finite(0 - 1, 1),
     maxDuration |-> Finite(0 - 1, 1),
     triggerDeadTime |-> Finite(30, 1),
     amplitudeMaxTimeWindow |-> Finite(10, 1),
     amplitudeMinOffset |-> Finite(3, 1),
     defaultTimeCorrection |-> Finite(0 - 8, 10),
     ringBufferSize |-> Finite(5 * 60, 1),
     leadTime |-> Finite(60, 1),
     initTime |-> Finite(60, 1),
     pickerType |-> "",
     killPendingSecondaryProcessors |-> TRUE,
     sendDetections |-> FALSE,
     extraPickComments |-> FALSE,
     playback |-> FALSE,
     amplitudeList |-> {"MLv", "mb", "mB"},
     commentID |-> "",
     commentText |-> "",
     amplitudeUpdateList |-> {},
     secondaryPickerType |-> "",
     featureExtractionType |-> "",
     dumpRecords |-> dumpRecords]

\* one try block of init(app): the option read, the getter used and the member
\* assigned
Read(key, get, field) == [key |-> key, get |-> get, field |-> field]

\* the try blocks of init(app), in the order of the source
Reads ==
    << Read("connection.amplitudeGroup", "String", "amplitudeGroup"),
       Read("phaseHint", "String", "phaseHint"),
       Read("comment.ID", "String", "commentID"),
       Read("comment.text", "String", "commentText"),
       Read("calculateAmplitudes", "Bool", "calculateAmplitudes"),
       Read("filter", "String", "defaultFilter"),
       Read("useAllStreams", "Bool", "useAllStreams"),
       Read("timeCorrection", "Double", "defaultTimeCorrection"),
       Read("ringBufferSize", "Double", "ringBufferSize"),
       Read("leadTime", "Double", "leadTime"),
       Read("initTime", "Double", "initTime"),
       Read("gapInterpolation", "Bool", "interpolateGaps"),
       Read("thresholds.triggerOn", "Double", "defaultTriggerOnThreshold"),
       Read("thresholds.triggerOff", "Double", "defaultTriggerOffThreshold"),
       Read("thresholds.maxGapLength", "Double", "maxGapLength"),
       Read("thresholds.deadTime", "Double", "triggerDeadTime"),
       Read("thresholds.minDuration", "Double", "minDuration"),
       Read("thresholds.maxDuration", "Double", "maxDuration"),
       Read("thresholds.amplMaxTimeWindow", "Double", "amplitudeMaxTimeWindow"),
       Read("thresholds.minAmplOffset", "Double", "amplitudeMinOffset"),
       Read("amplitudes", "Strings", "amplitudeList"),
       Read("amplitudes.enableUpdate", "Strings", "amplitudeUpdateList"),
       Read("picker", "String", "pickerType"),
       Read("spicker", "String", "secondaryPickerType"),
       Read("fx", "String", "featureExtractionType"),
       Read("killPendingSPickers", "Bool", "killPendingSecondaryProcessors"),
       Read("sendDetections", "Bool", "sendDetections"),
       Read("extraPickComments", "Bool", "extraPickComments"),
       Read("playback", "Bool", "playback") >>

Keys == {Reads[i].key : i \in 1 .. Len(Reads)}

\* values a getter may return when the option can be read
ConfiguredValues(get) ==
    CASE get = "String" -> {"configured"}
      [] get = "Bool" -> BOOLEAN
      [] get = "Double" -> {Finite(120, 1)}
      [] get = "Strings" -> {<< >>, <<"mb", "ML", "ML">>}

\* what stands for the value of an option whose getter throws; never read
NoValue(get) ==
    CASE get = "String" -> ""
      [] get = "Bool" -> FALSE
      [] get = "Double" -> Finite(0, 1)
      [] get = "Strings" -> << >>

\* an application configuration in which every getter throws
NoOptions ==
    [throws |-> Keys,
     value |-> [k \in Keys |->
                  NoValue(Reads[CHOOSE i \in 1 .. Len(Reads) : Reads[i].key = k].get)]]

\* an application configuration: the options whose getter throws, and the
\* values the other getters return
WithOption(app, r, v) ==
    [throws |-> app.throws \ {r.key}, value |-> [app.value EXCEPT ![r.key] = v]]

\* the configurations with at most n readable options
RECURSIVE Configurations(_)
Configurations(n) ==
    IF n = 0 THEN {NoOptions}
    ELSE LET fewer == Configurations(n - 1) IN
         fewer \cup
         UNION { UNION { {WithOption(a, Reads[i], v) : v \in ConfiguredValues(Reads[i].get)} :
                         i \in 1 .. Len(Reads) } :
                 a \in fewer }

\* the elements of a std::vector
Elements(vector) == {vector[i] : i \in 1 .. Len(vector)}

\* a try body that inserts the configured amplitudes without clear()
assignedMerged(old, get, value) ==
    IF get = "Strings" THEN old \cup Elements(value) ELSE value

\* what a try body whose getter returned value leaves in the member: the
\* value, for a list clear() and then insert(begin, end)
assigned(old, get, value) ==
    IF get = "Strings" THEN Elements(value) ELSE value

\* try { member = app->configGet...(key); } catch ( ... ) {}
tryRead(cfg, app, r) ==
    IF r.key \in app.throws
      THEN cfg
      ELSE [cfg EXCEPT ![r.field] = assigned(@, r.get, app.value[r.key])]

\* Picker::Config::init(app) from try block i on
RECURSIVE initFrom(_, _, _)
initFrom(cfg, app, i) ==
    IF i > Len(Reads) THEN cfg
    ELSE initFrom(tryRead(cfg, app, Reads[i]), app, i + 1)

\* Picker::Config::init(const Client::Application *app)
init(cfg, app) == initFrom(cfg, app, 1)

\* the plugin runs in scqc, where there is no picker
NoPicker == [pc |-> "absent"]

Init ==
    /\ buffer = << >>
    /\ lastRecordEndTime = ZeroTime
    /\ now = 0
    /\ pushed = << >>
    /\ picker = NoPicker

\* the host appends the QcParameter of a record that arrived
Feed(qcp, k) ==
    /\ InStreamOrder(buffer, qcp)
    /\ buffer' = push_back(buffer, qcp, k)
    /\ pushed' = << >>
    /\ UNCHANGED <<lastRecordEndTime, now, picker>>

\* a timeoutTask that appends its timeout entry to an empty buffer as well
TimeoutTaskEmptyAppends ==
    /\ empty(buffer)
    /\ buffer' = << QcParameter(lastRecordEndTime, now, 0 - 1, now - lastRecordEndTime) >>
    /\ pushed' = << >>
    /\ UNCHANGED <<lastRecordEndTime, now, picker>>

\* timeoutTask on an empty buffer: log and return
TimeoutTaskEmpty ==
    /\ empty(buffer)
    /\ pushed' = << >>
    /\ UNCHANGED <<buffer, lastRecordEndTime, now, picker>>

\* an update that follows every back entry, timeout or not
updatedFromAnyBack(buf, last) == back(buf).recordEndTime

\* _lastRecordEndTime after the update timeoutTask makes: the end of the back
\* entry when the previous buffer item was a real record
updatedLastRecordEndTime(buf, last) ==
    IF back(buf).recordSamplingFrequency # TimeoutFreq
      THEN back(buf).recordEndTime
      ELSE last

\* a timeout entry whose parameter is the end time, not the span
timeoutEntryNoSpan(last, t) == QcParameter(last, t, TimeoutFreq, t)

\* the QcParameter timeoutTask builds; t is the clock read, parameter in ticks
timeoutEntry(last, t) == QcParameter(last, t, TimeoutFreq, t - last)

\* a timeoutTask that appends its timeout entry only when the back entry is
\* not a real record, and only emits when one is
TimeoutTaskOnlyOnStall(t, k, c1, c2, c3) ==
    /\ ~empty(buffer)
    /\ IF IsReal(back(buffer))
         THEN /\ pushed' = generateReport(buffer, c1, c2, c3)
              /\ UNCHANGED <<buffer, lastRecordEndTime>>
         ELSE LET qcp == timeoutEntry(lastRecordEndTime, t)
              IN /\ lastRecordEndTime' = lastRecordEndTime
                 /\ buffer' = push_back(buffer, qcp, k)
                 /\ pushed' = generateReport(push_back(buffer, qcp, k), c1, c2, c3)
    /\ now' = c3
    /\ UNCHANGED picker

\* timeoutTask on a non-empty buffer; t is the clock read for recordEndTime,
\* c1..c3 the clock reads of the report emission sendMessages leads to
TimeoutTask(t, k, c1, c2, c3) ==
    /\ ~empty(buffer)
    /\ LET last == updatedLastRecordEndTime(buffer, lastRecordEndTime)
           qcp == timeoutEntry(last, t)
       IN /\ lastRecordEndTime' = last
          /\ buffer' = push_back(buffer, qcp, k)
          /\ pushed' = generateReport(push_back(buffer, qcp, k), c1, c2, c3)
    /\ now' = c3
    /\ UNCHANGED picker

\* a report that takes the front entry out of the buffer it reports on
GenerateReportDroppingFront(c1, c2, c3) ==
    /\ pushed' = generateReport(buffer, c1, c2, c3)
    /\ now' = IF empty(buffer) THEN now ELSE c3
    /\ buffer' = IF empty(buffer) THEN buffer ELSE Tail(buffer)
    /\ UNCHANGED <<lastRecordEndTime, picker>>

\* the host asks for a report on the buffer
GenerateReport(c1, c2, c3) ==
    /\ pushed' = generateReport(buffer, c1, c2, c3)
    /\ now' = IF empty(buffer) THEN now ELSE c3
    /\ UNCHANGED <<buffer, lastRecordEndTime, picker>>

Next ==
    \/ \E qcp \in RealRecords, k \in Evictions(buffer) : Feed(qcp, k)
    \/ TimeoutTaskEmpty
    \/ \E c \in ClockReads(now, 4), k \in Evictions(buffer) :
         TimeoutTask(c[1], k, c[2], c[3], c[4])
    \/ \E c \in ClockReads(now, 3) : GenerateReport(c[1], c[2], c[3])

Spec == Init /\ [][Next]_vars

\* the plugin while retention drops nothing: the buffer is not yet full
NextNoEvict ==
    \/ \E qcp \in RealRecords : Len(buffer) < MaxLen /\ Feed(qcp, 0)
    \/ TimeoutTaskEmpty
    \/ \E c \in ClockReads(now, 4) :
         Len(buffer) < MaxLen /\ TimeoutTask(c[1], 0, c[2], c[3], c[4])
    \/ \E c \in ClockReads(now, 3) : GenerateReport(c[1], c[2], c[3])

SpecNoEvict == Init /\ [][NextNoEvict]_vars

\* ------------------------------------------- the evaluator on given buffers
\* a time instant given in seconds
Sec(x) == x * TicksPerSec

\* two-entry buffers around the documented scenarios: a real record from a to
\* b seconds, then a real record from c to d seconds or a timeout from b to d
ScenarioBuffers ==
    {<<QcParameter(Sec(a), Sec(b), fs, 0), QcParameter(Sec(c), Sec(d), fs, 0)>> :
       a \in {0 - 5, 0}, b \in {10, 15}, c \in {10, 15, 20}, d \in {25, 40},
       fs \in {50, 100}}
    \cup
    {<<QcParameter(Sec(a), Sec(b), fs, 0), timeoutEntry(Sec(b), Sec(d))>> :
       a \in {0 - 5, 0}, b \in {10, 15}, d \in {25, 40}, fs \in {50, 100}}

\* the plugin holding one of these buffers; after a timeout the clock stands
\* at the timeout's end and _lastRecordEndTime at its start
InitScenario ==
    /\ buffer \in ScenarioBuffers
    /\ lastRecordEndTime =
         IF IsTimeout(back(buffer)) THEN back(buffer).recordStartTime ELSE ZeroTime
    /\ now = IF IsTimeout(back(buffer)) THEN back(buffer).recordEndTime ELSE 0
    /\ pushed = << >>
    /\ picker = NoPicker

\* the host asks for a report; the clock does not advance meanwhile
NextScenario == GenerateReport(now, now, now)

SpecScenario == InitScenario /\ [][NextScenario]_vars

\* scautopick sets up its configuration: a constructed Picker::Config, with
\* dumpRecords holding whatever the memory held, and some configuration
InitConfig ==
    /\ buffer = << >>
    /\ lastRecordEndTime = ZeroTime
    /\ now = 0
    /\ pushed = << >>
    /\ picker \in {[pc |-> "constructed", config |-> Config(d), app |-> a] :
                     d \in BOOLEAN, a \in Configurations(MaxPresent)}

\* the application calls config.init(app)
ConfigInit ==
    /\ picker.pc = "constructed"
    /\ picker' = [picker EXCEPT !.pc = "initialised",
                                !.config = init(picker.config, picker.app)]
    /\ UNCHANGED <<buffer, lastRecordEndTime, now, pushed>>

NextConfig == ConfigInit

SpecConfig == InitConfig /\ [][NextConfig]_vars

\* ------------------------------------------------------------- properties
\* comparisons of a double result with a number
IsNumber(x) == x.k = "finite"

EqualsNumber(x, v) == IsNumber(x) /\ x.n = v * x.d

InRange(x, lo, hi) == IsNumber(x) /\ lo * x.d <= x.n /\ x.n <= hi * x.d

FrontIsReal(buf) == ~empty(buf) /\ IsReal(front(buf))

FrontIsTimeout(buf) == ~empty(buf) /\ IsTimeout(front(buf))

\* the result (0, 0, 0)
IsZeroResult(r) ==
    EqualsNumber(r.availability, 0) /\ r.gaps = 0 /\ r.overlaps = 0

\* C1: for every non-empty buffer whose front entry is a real record, the
\* availability returned is a number a with 0 <= a <= 100: never negative,
\* never NaN or infinite.
C1_ClampedRange ==
    FrontIsReal(buffer) => InRange(availability(buffer).availability, 0, 100)

\* C2: when the estimated sample count of the analysis window is 0,
\* availability(buf) returns (0, 0, 0) and does not divide by estimated.
C2_ZeroEstimateReturnsZeros ==
    (FrontIsReal(buffer) /\ estimatedSamples(buffer) = 0)
      => /\ IsZeroResult(availability(buffer))
         /\ ~availability(buffer).divided

\* index of the latest real entry before entry i, 0 when there is none
RECURSIVE PrevReal(_, _)
PrevReal(buf, i) ==
    IF i <= 1 THEN 0
    ELSE IF IsReal(buf[i - 1]) THEN i - 1
    ELSE PrevReal(buf, i - 1)

\* D > 0.5 / fs and D < -0.5 / fs for D = dticks / TicksPerSec seconds, fs > 0
BeyondHalfSampleLate(dticks, fs) == 2 * dticks * fs > TicksPerSec

BeyondHalfSampleEarly(dticks, fs) == 2 * dticks * fs < 0 - TicksPerSec

\* C3: for every real entry e the evaluator examines that has a real entry p
\* before it, with D = e.recordStartTime - p.recordEndTime: gaps is incremented
\* iff D > 0.5 / e.fs and overlaps iff D < -0.5 / e.fs, whatever the value of
\* p.recordEndTime is.
C3_GapOverlapClassification ==
    FrontIsReal(buffer) =>
      LET bs == scan(buffer).boundaries IN
      \A j \in 1 .. Len(bs) :
        LET e == buffer[bs[j].index]
            pi == PrevReal(buffer, bs[j].index)
        IN pi # 0 =>
             LET D == e.recordStartTime - buffer[pi].recordEndTime IN
             /\ bs[j].gap <=> BeyondHalfSampleLate(D, e.recordSamplingFrequency)
             /\ bs[j].overlap <=> BeyondHalfSampleEarly(D, e.recordSamplingFrequency)

\* the buffer without the timeout entries that lie between two real records
RECURSIVE WithoutInteriorTimeouts(_, _)
WithoutInteriorTimeouts(buf, i) ==
    IF i > Len(buf) THEN << >>
    ELSE IF /\ IsTimeout(buf[i])
            /\ \E j \in 1 .. i - 1 : IsReal(buf[j])
            /\ \E j \in i + 1 .. Len(buf) : IsReal(buf[j])
      THEN WithoutInteriorTimeouts(buf, i + 1)
      ELSE <<buf[i]>> \o WithoutInteriorTimeouts(buf, i + 1)

\* C4: timeout entries between two real records change neither gaps nor
\* overlaps: the buffer gives the same counts with and without them.
C4_TimeoutsBetweenRecordsIgnored ==
    LET without == WithoutInteriorTimeouts(buffer, 1) IN
    /\ availability(buffer).gaps = availability(without).gaps
    /\ availability(buffer).overlaps = availability(without).overlaps

\* a timeout between two real records with a gap between them, which is counted
C4_Witness ==
    /\ Len(buffer) = 3
    /\ IsReal(buffer[1]) /\ IsTimeout(buffer[2]) /\ IsReal(buffer[3])
    /\ buffer[2].recordEndTime # buffer[2].recordStartTime
    /\ availability(buffer).gaps = 1

\* C5: timeout entries appended one after the other, with no real record in
\* between, all have the recordStartTime of the first of them, while their
\* recordEndTime follows the clock.
C5_TimeoutAnchorDoesNotDrift ==
    \A i \in 1 .. Len(buffer) - 1 :
      (IsTimeout(buffer[i]) /\ IsTimeout(buffer[i + 1])) =>
        /\ buffer[i + 1].recordStartTime = buffer[i].recordStartTime
        /\ buffer[i].recordEndTime <= buffer[i + 1].recordEndTime
        /\ buffer[i + 1].recordEndTime <= now

\* three timeouts in a row whose end times moved away from their start
C5_Witness ==
    /\ Len(buffer) = 3
    /\ \A i \in 1 .. 3 : IsTimeout(buffer[i])
    /\ buffer[1].recordEndTime # buffer[1].recordStartTime
    /\ buffer[3].recordEndTime > buffer[1].recordEndTime

\* the fields of every timeout entry of the buffer
C6_TimeoutFields ==
    \A i \in 1 .. Len(buffer) :
      IsTimeout(buffer[i]) =>
        LET p == PrevReal(buffer, i) IN
        /\ buffer[i].recordSamplingFrequency = 0 - 1
        /\ p # 0
        /\ buffer[i].recordStartTime = buffer[p].recordEndTime
        /\ buffer[i].parameter = buffer[i].recordEndTime - buffer[i].recordStartTime
        /\ buffer[i].recordEndTime <= now

\* the end time of a timeout entry that a step appends is a clock value of that step
C6_EndTimeIsClock ==
    (Len(buffer') = Len(buffer) + 1 /\ IsTimeout(back(buffer')))
      => back(buffer').recordEndTime \in now .. now'

\* C6: while nothing is evicted, every timeout entry has sampling frequency -1,
\* recordEndTime the clock value of its tick, recordStartTime the recordEndTime
\* of the latest real record before it, and parameter = recordEndTime -
\* recordStartTime.
C6_TimeoutEntryShape == [](C6_TimeoutFields) /\ [][C6_EndTimeIsClock]_vars

\* a timeout after a real record, a later real record and its own timeout
C6_Witness ==
    /\ Len(buffer) = 3
    /\ IsReal(buffer[1]) /\ IsReal(buffer[2]) /\ IsTimeout(buffer[3])
    /\ buffer[2].recordEndTime # buffer[1].recordEndTime
    /\ buffer[3].recordStartTime # ZeroTime
    /\ buffer[3].parameter # 0

\* C7: when the front entry of the buffer is a timeout marker, generateReport
\* pushes no report.
C7_NoReportOnLeadingTimeout ==
    FrontIsTimeout(buffer) => Len(pushed) = 0

\* C8: availability(buf) returns exactly (0, 0, 0), without dividing, when the
\* buffer is empty or its front entry is a timeout marker, whatever follows.
C8_ZerosOnEmptyOrLeadingTimeout ==
    (empty(buffer) \/ FrontIsTimeout(buffer)) =>
      /\ IsZeroResult(availability(buffer))
      /\ ~availability(buffer).divided

\* a leading timeout followed by two real records with a gap between them
C8_Witness ==
    /\ Len(buffer) = 3
    /\ IsTimeout(buffer[1]) /\ IsReal(buffer[2]) /\ IsReal(buffer[3])
    /\ BeyondHalfSampleLate(buffer[3].recordStartTime - buffer[2].recordEndTime,
                            buffer[3].recordSamplingFrequency)
    /\ buffer[2].recordEndTime # ZeroTime

\* C9: a buffer holding a single real record gives availability 100, gaps 0
\* and overlaps 0, for every record length and every sampling frequency.
C9_SingleRecordIsFullyAvailable ==
    (Len(buffer) = 1 /\ IsReal(buffer[1])) =>
      LET r == availability(buffer) IN
      EqualsNumber(r.availability, 100) /\ r.gaps = 0 /\ r.overlaps = 0

\* C10: at the boundary between two adjacent real entries the evaluator
\* increments at most one of gaps and overlaps.
C10_GapOrOverlapNotBoth ==
    FrontIsReal(buffer) =>
      LET acc == scan(buffer) IN
      /\ \A j \in 1 .. Len(acc.boundaries) :
           ~(acc.boundaries[j].gap /\ acc.boundaries[j].overlap)
      /\ acc.gapCount + acc.overlapCount <= Len(acc.boundaries) - 1

\* three real records: a counted gap, then a counted overlap
C10_Witness ==
    /\ Len(buffer) = 3
    /\ \A i \in 1 .. 3 : IsReal(buffer[i])
    /\ LET acc == scan(buffer) IN
       /\ Len(acc.boundaries) = 3
       /\ acc.boundaries[2].gap
       /\ acc.boundaries[3].overlap

\* the factors by which a buffer is scaled
Factors == {2, 4}

AllReal(buf) == \A i \in 1 .. Len(buf) : IsReal(buf[i])

\* the buffer with every time instant, and so every record duration,
\* multiplied by kt and every sampling frequency multiplied by fn / fd
Scaled(buf, kt, fn, fd) ==
    [i \in 1 .. Len(buf) |->
       QcParameter(buf[i].recordStartTime * kt, buf[i].recordEndTime * kt,
                   (buf[i].recordSamplingFrequency * fn) \div fd,
                   buf[i].parameter)]

SameCounts(r1, r2) == r1.gaps = r2.gaps /\ r1.overlaps = r2.overlaps

\* the claim as stated: durations and sampling frequencies scaled by the same
\* factor k leave gaps and overlaps unchanged
C11_SameFactorKeepsCounts ==
    (~empty(buffer) /\ AllReal(buffer)) =>
      \A k \in Factors :
        SameCounts(availability(Scaled(buffer, k, k, 1)), availability(buffer))

\* C11 (amended): for a buffer of real records, multiplying every record time
\* by k > 0 and dividing every sampling frequency by k leaves gaps and
\* overlaps unchanged.
C11_InverseFactorKeepsCounts ==
    (~empty(buffer) /\ AllReal(buffer)) =>
      \A k \in Factors :
        (\A i \in 1 .. Len(buffer) : buffer[i].recordSamplingFrequency % k = 0)
          => SameCounts(availability(Scaled(buffer, k, 1, k)), availability(buffer))

\* three real records at 4 Hz with a counted gap and a counted overlap
C11_Witness ==
    /\ Len(buffer) = 3
    /\ \A i \in 1 .. 3 : buffer[i].recordSamplingFrequency = 4
    /\ availability(buffer).gaps = 1
    /\ availability(buffer).overlaps = 1
    /\ availability(Scaled(buffer, 4, 1, 4)).gaps = 1

\* C12: the three reports one generateReport call pushes carry identical
\* start, end, windowLength and created values.
C12_TripleSharesWindowAndCreated ==
    Len(pushed) = 3 =>
      \A i \in 2 .. 3 :
        /\ pushed[i].start = pushed[1].start
        /\ pushed[i].end = pushed[1].end
        /\ pushed[i].windowLength = pushed[1].windowLength
        /\ pushed[i].created = pushed[1].created

\* a step in which generateReport ran: on its own, or at the end of timeoutTask
ReportStep ==
    \/ \E c \in ClockReads(now, 3) : GenerateReport(c[1], c[2], c[3])
    \/ \E c \in ClockReads(now, 4), k \in Evictions(buffer) :
         TimeoutTask(c[1], k, c[2], c[3], c[4])

\* the pushed objects are the triple of one evaluation of the buffer
C13_TripleOfOneEvaluation ==
    (FrontIsReal(buffer) /\ Len(pushed) > 0) =>
      LET result == availability(buffer) IN
      /\ Len(pushed) = 3
      /\ pushed[1].parameter = "availability"
      /\ pushed[2].parameter = "gaps count"
      /\ pushed[3].parameter = "overlaps count"
      /\ pushed[1].value = result.availability
      /\ pushed[2].value = Finite(result.gaps, 1)
      /\ pushed[3].value = Finite(result.overlaps, 1)
      /\ \A i \in 1 .. 3 :
           /\ pushed[i].type = "report"
           /\ pushed[i].lowerUncertainty = 0
           /\ pushed[i].upperUncertainty = 0

\* every run of generateReport on a buffer with a real front entry pushes three
C13_ReportStepPushesThree ==
    (FrontIsReal(buffer') /\ Len(pushed') # 3) => ~ReportStep

\* C13: each generateReport call on a non-empty buffer whose front is a real
\* record pushes exactly three reports, in the order availability, gaps count,
\* overlaps count, with the values of one availability(buf) evaluation, type
\* report and both uncertainties 0.
C13_FixedTriple ==
    [](C13_TripleOfOneEvaluation) /\ [][C13_ReportStepPushesThree]_vars

\* a pushed triple that reports one gap and no overlap
C13_Witness ==
    /\ FrontIsReal(buffer)
    /\ Len(pushed) = 3
    /\ pushed[2].value = Finite(1, 1)
    /\ pushed[3].value = Finite(0, 1)
    /\ EqualsNumber(pushed[1].value, 50)

\* the buffer of scenario S4: real entries (-5, 15, 100) then (20, 25, 100)
S4Buffer ==
    <<QcParameter(Sec(0 - 5), Sec(15), 100, 0), QcParameter(Sec(20), Sec(25), 100, 0)>>

\* the claim as stated: the S4 buffer gives (100.0, 0, 0)
C14_ShortCircuitResult ==
    buffer = S4Buffer =>
      LET r == availability(buffer) IN
      EqualsNumber(r.availability, 100) /\ r.gaps = 0 /\ r.overlaps = 0

\* C14 (amended): for the buffer holding (-5, 15, 100) then (20, 25, 100), whose
\* window is [-5, 25), availability(buf) returns (250/3, 1, 0): both entries
\* lie inside the window and add 2000 + 500 of the 3000 estimated samples, the
\* loop does not stop at the first entry, and the gap before the second entry
\* is counted.
C14_BothEntriesCounted ==
    buffer = S4Buffer =>
      LET r == availability(buffer) IN
      /\ estimatedSamples(buffer) = 3000
      /\ scan(buffer).effectiveSamples = 2500
      /\ IsNumber(r.availability) /\ 3 * r.availability.n = 250 * r.availability.d
      /\ r.gaps = 1
      /\ r.overlaps = 0

\* the S4 buffer after its report was generated
C14_Witness == buffer = S4Buffer /\ Len(pushed) = 3

\* C15: no entry of the buffer has recordEndTime < recordStartTime; timeoutTask
\* never appends a timeout that ends before it starts.
C15_NoEntryEndsBeforeItStarts ==
    \A i \in 1 .. Len(buffer) :
      buffer[i].recordEndTime >= buffer[i].recordStartTime

\* a step in which only generateReport ran
ReportOnlyStep == \E c \in ClockReads(now, 3) : GenerateReport(c[1], c[2], c[3])

\* the buffer after one entry e was appended to buf by record ingestion or by
\* timeoutTask
IsAppendOf(buf2, buf) ==
    /\ ~empty(buf2)
    /\ \E k \in Evictions(buf) : buf2 = push_back(buf, back(buf2), k)

C16_ReportLeavesBuffer ==
    /\ pushed' # << >> =>
         \/ UNCHANGED <<buffer, lastRecordEndTime>>
         \/ IsAppendOf(buffer', buffer) /\ IsTimeout(back(buffer'))
    /\ buffer' # buffer => IsAppendOf(buffer', buffer)
    /\ lastRecordEndTime' # lastRecordEndTime =>
         (IsAppendOf(buffer', buffer) /\ IsTimeout(back(buffer')))
    /\ (pushed' # << >> /\ ~empty(buffer')) =>
         /\ pushed'[1].start = startTime(buffer')
         /\ pushed'[1].end = endTime(buffer')

\* C16: availability(buf) and generateReport(buf) leave the buffer and
\* _lastRecordEndTime unchanged; only timeoutTask and record ingestion change
\* the buffer, each by appending one entry.
C16_EvaluatorDoesNotMutate == [][C16_ReportLeavesBuffer]_vars

\* a full buffer that ends with a real record, just after its report
C16_Witness ==
    /\ Len(buffer) = MaxLen
    /\ IsReal(back(buffer))
    /\ Len(pushed) = 3
    /\ lastRecordEndTime # ZeroTime

\* what a step leaves behind when it started on an empty buffer and was not
\* the ingestion of a real record
NoEffectOnEmpty ==
    /\ empty(buffer')
    /\ lastRecordEndTime' = lastRecordEndTime
    /\ pushed' = << >>

IngestsFirstRecord ==
    /\ Len(buffer') = 1
    /\ IsReal(front(buffer'))
    /\ lastRecordEndTime' = lastRecordEndTime
    /\ pushed' = << >>

C17_EmptyStep ==
    /\ (empty(buffer) /\ (TimeoutTaskEmpty \/ ReportOnlyStep)) => NoEffectOnEmpty
    /\ empty(buffer) => (NoEffectOnEmpty \/ IngestsFirstRecord)
    /\ empty(buffer) =>
         \A c \in ClockReads(now, 3) : generateReport(buffer, c[1], c[2], c[3]) = << >>

\* C17: on an empty buffer timeoutTask appends no entry, leaves
\* _lastRecordEndTime unchanged and emits no report, and generateReport pushes
\* no report; the buffer is still empty afterwards.
C17_NoEffectOnEmptyBuffer ==
    /\ [](empty(buffer) => (pushed = << >> /\ lastRecordEndTime = ZeroTime))
    /\ [][C17_EmptyStep]_vars

\* the empty buffer, on which timeoutTask and generateReport can run and have
\* left nothing behind
C17_Witness ==
    /\ empty(buffer)
    /\ ENABLED TimeoutTaskEmpty
    /\ ENABLED ReportOnlyStep
    /\ pushed = << >>

\* a step in which timeoutTask ran on a non-empty buffer
TickStep ==
    \E c \in ClockReads(now, 4), k \in Evictions(buffer) :
      TimeoutTask(c[1], k, c[2], c[3], c[4])

\* a real record arrived since the previous tick: every tick on a non-empty
\* buffer leaves a timeout at the back, every arrival a real record
NewRecordSinceTick == ~empty(buffer) /\ IsReal(back(buffer))

AppendsTimeout == IsAppendOf(buffer', buffer) /\ IsTimeout(back(buffer'))

C18_TickAfterRecordOnlyEmits ==
    /\ (TickStep /\ NewRecordSinceTick) => (buffer' = buffer /\ Len(pushed') = 3)
    /\ (TickStep /\ AppendsTimeout) => ~NewRecordSinceTick

\* C18: a periodic tick appends a synthetic timeout entry only if no new real
\* record arrived since the previous tick; a tick that follows the arrival of
\* a new record evaluates and emits without appending a timeout.
C18_TimeoutOnlyWithoutNewRecord == [][C18_TickAfterRecordOnlyEmits]_vars

C18_TickAppendsAndEmits ==
    TickStep =>
      /\ AppendsTimeout
      /\ back(buffer').recordEndTime \in now .. now'
      /\ Len(pushed') = 3
      /\ pushed'[1].end = back(buffer').recordEndTime

\* C18, as amended: a periodic tick on a non-empty buffer always appends a
\* synthetic timeout entry and then evaluates and emits, whether or not a new
\* real record arrived since the previous tick.
C18_EveryTickAppendsTimeout == [][C18_TickAppendsAndEmits]_vars

\* a timeout appended right behind a real record, with the report of that tick
C18_Witness ==
    /\ Len(buffer) >= 2
    /\ IsTimeout(back(buffer))
    /\ IsReal(buffer[Len(buffer) - 1])
    /\ Len(pushed) = 3
    /\ pushed[1].end = back(buffer).recordEndTime

\* the end of the last real record of buf (buf holds one)
LastRealEnd(buf) == buf[PrevReal(buf, Len(buf) + 1)].recordEndTime

\* the back entry is a timeout whose clock read is not behind the end of the
\* last real record
TickedNotBehind(buf) ==
    /\ FrontIsReal(buf)
    /\ IsTimeout(back(buf))
    /\ back(buf).recordEndTime >= LastRealEnd(buf)

\* x <= y for two doubles; every comparison with NaN is false
NotAbove(x, y) == IsNumber(x) /\ IsNumber(y) /\ x.n * y.d <= y.n * x.d

C19_NextTickNotAbove ==
    (TickStep /\ TickedNotBehind(buffer) /\ TickedNotBehind(buffer')) =>
      LET r1 == availability(buffer)
          r2 == availability(buffer')
      IN /\ NotAbove(r2.availability, r1.availability)
         /\ SameCounts(r1, r2)

\* C19: while only timeoutTask ticks follow the last real record (clock not
\* behind that record's end, no eviction, front entry real), the availability
\* evaluated after each successive tick is non-increasing and gaps and
\* overlaps stay constant; real (0, 10, 100) followed by timeout (10, 40, -1)
\* gives (25.0, 0, 0).
C19_StallLowersAvailability ==
    /\ [](LET r == availability(<<QcParameter(Sec(0), Sec(10), 100, 0),
                                  timeoutEntry(Sec(10), Sec(40))>>)
          IN EqualsNumber(r.availability, 25) /\ r.gaps = 0 /\ r.overlaps = 0)
    /\ [][C19_NextTickNotAbove]_vars

\* the analysis window of buf
AnalysisWindow(buf) == TimeWindow(startTime(buf), endTime(buf))

\* entry i of buf is real, its window is not contained in the analysis window
\* and contains it
ContainsWindow(buf, i) ==
    LET W == AnalysisWindow(buf)
        We == TimeWindow(buf[i].recordStartTime, buf[i].recordEndTime)
    IN IsReal(buf[i]) /\ ~contains(W, We) /\ contains(We, W)

\* index of the first such entry, the one the loop reaches; 0 when none
ContainingEntry(buf) ==
    IF \E i \in 1 .. Len(buf) : ContainsWindow(buf, i)
      THEN CHOOSE i \in 1 .. Len(buf) :
             /\ ContainsWindow(buf, i)
             /\ \A j \in 1 .. i - 1 : ~ContainsWindow(buf, j)
      ELSE 0

\* C20: if availability(buf) reaches a real entry e whose window is not
\* contained in the analysis window W but contains W, the availability is
\* exactly 100 and the loop stops at e: the boundary between e and its
\* predecessor is still classified, but no entry after e contributes to
\* effective, gaps or overlaps.
C20_ContainingEntryEndsLoop ==
    (FrontIsReal(buffer) /\ ContainingEntry(buffer) # 0) =>
      LET e == ContainingEntry(buffer)
          r == availability(buffer)
          acc == scan(buffer)
          bs == acc.boundaries
          upToE == loop(SubSeq(buffer, 1, e), 1, AnalysisWindow(buffer),
                        estimatedSamples(buffer),
                        [effectiveSamples |-> 0, gapCount |-> 0, overlapCount |-> 0,
                         lastTime |-> ZeroTime, boundaries |-> << >>])
      IN /\ EqualsNumber(r.availability, 100)
         /\ bs # << >> /\ bs[Len(bs)].index = e
         /\ acc.effectiveSamples = estimatedSamples(buffer)
         /\ r.gaps = upToE.gapCount
         /\ r.overlaps = upToE.overlapCount
         /\ r.gaps = Cardinality({j \in 1 .. Len(bs) : bs[j].gap})
         /\ r.overlaps = Cardinality({j \in 1 .. Len(bs) : bs[j].overlap})

\* r, the number of real (non-timeout) entries of buf
RealCount(buf) == Cardinality({i \in 1 .. Len(buf) : IsReal(buf[i])})

AllRealRatesPositive(buf) ==
    \A i \in 1 .. Len(buf) : IsReal(buf[i]) => buf[i].recordSamplingFrequency > 0

Max(a, b) == IF a >= b THEN a ELSE b

\* C21: for every buffer the counts returned by availability(buf) satisfy
\* gaps >= 0, overlaps >= 0 and, when all real entries have positive sampling
\* frequency, gaps + overlaps <= max(0, r - 1) with r the number of real
\* entries of the buffer.
C21_CountsBoundedByRealEntries ==
    LET r == availability(buffer) IN
    /\ r.gaps >= 0
    /\ r.overlaps >= 0
    /\ AllRealRatesPositive(buffer) =>
         r.gaps + r.overlaps <= Max(0, RealCount(buffer) - 1)

\* three real entries whose two boundaries are both counted
C21_Witness ==
    /\ RealCount(buffer) = 3
    /\ AllRealRatesPositive(buffer)
    /\ availability(buffer).gaps + availability(buffer).overlaps = 2
    /\ availability(buffer).gaps >= 1

\* the option read by try block i could not be read: its getter threw
ReadFails(app, i) == Reads[i].key \in app.throws

\* the configuration object after init(app), against the object the
\* constructor left
C22_AfterInit ==
    picker.pc = "initialised" =>
      LET cfg == picker.config
          app == picker.app
          constructed == Config(cfg.dumpRecords)
      IN /\ \A i \in 1 .. Len(Reads) :
              ReadFails(app, i) => cfg[Reads[i].field] = constructed[Reads[i].field]
         /\ \A f \in DOMAIN cfg :
              cfg[f] # constructed[f] =>
                \E i \in 1 .. Len(Reads) : Reads[i].field = f /\ ~ReadFails(app, i)
         /\ "ringBufferSize" \in app.throws => EqualsNumber(cfg.ringBufferSize, 300)
         /\ cfg.amplitudeList =
              IF "amplitudes" \in app.throws
                THEN {"MLv", "mb", "mB"}
                ELSE Elements(app.value["amplitudes"])

\* C22: after constructing Picker::Config and calling init(app), every option
\* whose read fails keeps its constructor default and disturbs no other
\* option: ringBufferSize stays 300 seconds, and amplitudeList stays
\* {MLv, mb, mB} unless the amplitudes option is read, in which case the list
\* is replaced by, not merged with, the configured values.
C22_FailedReadKeepsDefault ==
    /\ [](C22_AfterInit)
    /\ [][picker'.config.dumpRecords = picker.config.dumpRecords]_vars

\* after init(app) with amplitudes read and ringBufferSize not
C22_Witness ==
    /\ picker.pc = "initialised"
    /\ "ringBufferSize" \in picker.app.throws
    /\ "amplitudes" \notin picker.app.throws
    /\ picker.config.amplitudeList = {"mb", "ML"}
    /\ EqualsNumber(picker.config.ringBufferSize, 300)
    /\ Cardinality(picker.app.throws) = Len(Reads) - MaxPresent

====
